---- MODULE Spec2Model ----
(***************************************************************************)
(* Model of src/src/MyModule/__init__.py: the module-level function        *)
(* hello_world and the static methods of class Calculator.                 *)
(*                                                                         *)
(* Numbers are exact rationals <<numerator, denominator>> in lowest terms  *)
(* with a positive denominator; the operands are the multiples of 1/2 in a *)
(* bounded range, so integral and fractional operands both occur.  The     *)
(* rounding of binary floating point is not modelled.  Text is a sequence  *)
(* of one-character strings.                                               *)
(*                                                                         *)
(* A call is a frame owned by a caller: it is created by the call (the     *)
(* parameters are bound), executes the statements of the function body one *)
(* source line per step, and ends in an outcome: a returned value or a     *)
(* raised exception.                                                       *)
(*                                                                         *)
(* A definition named X_mutant_Y is a faulty variant of the definition X   *)
(* that follows it; it shows that a property depends on X.                 *)
(***************************************************************************)
EXTENDS Integers, Sequences, FiniteSets

VARIABLES module, frames, ref

vars == <<module, frames, ref>>

(***************************************************************************)
(* Bounds of the model.                                                    *)
(***************************************************************************)
MaxTwice == 4        \* operands are k/2 for k in -MaxTwice..MaxTwice
MaxNameLen == 2      \* names are the texts over Alphabet up to this length
NumCallers == 2      \* concurrent callers of SpecConc

Alphabet == {"a", " "}

(***************************************************************************)
(* Text.                                                                   *)
(***************************************************************************)
World == <<"W", "o", "r", "l", "d">>

Texts == UNION {[1..n -> Alphabet] : n \in 0..MaxNameLen}

Names == Texts \cup {World}

SmallNames == {<<>>, <<" ">>, World}

\* f"Hello, {name}!": the literal parts and the formatted field, concatenated.
\* Formatting a str with an empty format spec yields the str itself.
fstring(name) == <<"H", "e", "l", "l", "o", ",", " ">> \o name \o <<"!">>

(***************************************************************************)
(* Numbers.                                                                *)
(***************************************************************************)
Abs(n) == IF n < 0 THEN -n ELSE n

RECURSIVE Gcd(_, _)
Gcd(m, n) == IF n = 0 THEN m ELSE Gcd(n, m % n)

\* The rational n/d (d # 0) in lowest terms with a positive denominator.
Norm(n, d) ==
    LET g == Gcd(Abs(n), Abs(d))
        s == IF d < 0 THEN -1 ELSE 1
    IN <<(s * n) \div g, (s * d) \div g>>

Operands == {Norm(k, 2) : k \in -MaxTwice..MaxTwice}

SmallOperands == {Norm(-3, 2), Norm(0, 1), Norm(2, 1)}

\* b == 0
is_zero(b) == b[1] = 0

\* a + b
op_add(a, b) == Norm(a[1] * b[2] + b[1] * a[2], a[2] * b[2])

\* a - b
op_sub_mutant_reversed(a, b) == Norm(b[1] * a[2] - a[1] * b[2], a[2] * b[2])

op_sub(a, b) == Norm(a[1] * b[2] - b[1] * a[2], a[2] * b[2])

\* a * b
op_mul(a, b) == Norm(a[1] * b[1], a[2] * b[2])

\* a / b for b # 0: true division
op_truediv_mutant_floor(a, b) ==
    LET q == Norm(a[1] * b[2], a[2] * b[1]) IN <<q[1] \div q[2], 1>>

op_truediv(a, b) == Norm(a[1] * b[2], a[2] * b[1])

(***************************************************************************)
(* Outcomes and frames.                                                    *)
(***************************************************************************)
NoOutcome == [kind |-> "none"]

Return(v) == [kind |-> "return", value |-> v]

Raise(exc, msg) == [kind |-> "raise", exc |-> exc, msg |-> msg]

IdleFrame == [pc |-> "idle", op |-> "none", args |-> <<>>, locals |-> <<>>,
              outcome |-> NoOutcome]

\* Module state after import: lines 7-9 (metadata), 12 (the default of
\* hello_world's parameter), 32-55 (the attributes of Calculator), 59.
ModuleInit ==
    [version |-> "0.1.0", author |-> "Your Name", email |-> "your.email@example.com",
     hello_world_defaults |-> <<World>>,
     Calculator |-> {"add", "subtract", "multiply", "divide"},
     all |-> <<"hello_world", "Calculator">>]

Init ==
    /\ module = ModuleInit
    /\ frames = [c \in 1..NumCallers |-> IdleFrame]
    /\ ref = NoOutcome

(***************************************************************************)
(* Calls: the caller binds the arguments to the parameters and the frame   *)
(* starts at the first statement of the function body.                     *)
(***************************************************************************)
\* def hello_world(name: str = "World"): the parameter takes the positional
\* argument when one is passed and the stored default otherwise.
bind_name_mutant_falsy(args) ==
    IF Len(args) >= 1 /\ args[1] # <<>> THEN args[1] ELSE module.hello_world_defaults[1]

bind_name_mutant_nodefault(args) ==
    IF Len(args) >= 1 THEN args[1] ELSE <<>>

bind_name(args) ==
    IF Len(args) >= 1 THEN args[1] ELSE module.hello_world_defaults[1]

\* The first statement of each method of Calculator.
Entry(op) ==
    CASE op = "add" -> "line38"
      [] op = "subtract" -> "line43"
      [] op = "multiply" -> "line48"
      [] op = "divide" -> "line53"

Call_hello_world(c, Nms) ==
    /\ frames[c].pc = "idle"
    /\ \E args \in {<<>>} \cup {<<n>> : n \in Nms} :
         frames' = [frames EXCEPT ![c] =
                      [pc |-> "line28", op |-> "hello_world", args |-> args,
                       locals |-> [name |-> bind_name(args)],
                       outcome |-> NoOutcome]]
    /\ UNCHANGED <<module, ref>>

Call_Calculator(c, Ops) ==
    /\ frames[c].pc = "idle"
    /\ \E op \in module.Calculator, a \in Ops, b \in Ops :
         frames' = [frames EXCEPT ![c] =
                      [pc |-> Entry(op), op |-> op, args |-> <<a, b>>,
                       locals |-> [a |-> a, b |-> b],
                       outcome |-> NoOutcome]]
    /\ UNCHANGED <<module, ref>>

(***************************************************************************)
(* Function bodies.                                                        *)
(***************************************************************************)
Finish(c, outcome) ==
    frames' = [frames EXCEPT ![c].pc = "returned", ![c].outcome = outcome]

\* line 28: return f"Hello, {name}!"
hello_world_mutant_remember(c) ==
    /\ frames[c].pc = "line28"
    /\ Finish(c, Return(fstring(frames[c].locals.name)))
    /\ module' = [module EXCEPT !.hello_world_defaults = <<frames[c].locals.name>>]
    /\ UNCHANGED ref

hello_world(c) ==
    /\ frames[c].pc = "line28"
    /\ Finish(c, Return(fstring(frames[c].locals.name)))
    /\ UNCHANGED <<module, ref>>

\* line 38: return a + b
add(c) ==
    /\ frames[c].pc = "line38"
    /\ Finish(c, Return(op_add(frames[c].locals.a, frames[c].locals.b)))
    /\ UNCHANGED <<module, ref>>

\* line 43: return a - b
subtract(c) ==
    /\ frames[c].pc = "line43"
    /\ Finish(c, Return(op_sub(frames[c].locals.a, frames[c].locals.b)))
    /\ UNCHANGED <<module, ref>>

\* line 48: return a * b
multiply(c) ==
    /\ frames[c].pc = "line48"
    /\ Finish(c, Return(op_mul(frames[c].locals.a, frames[c].locals.b)))
    /\ UNCHANGED <<module, ref>>

\* line 53: if b == 0:
divide_test_mutant_skipped(c) ==
    /\ frames[c].pc = "line53"
    /\ frames' = [frames EXCEPT ![c].pc = "line55"]
    /\ UNCHANGED <<module, ref>>

divide_test_mutant_dividend(c) ==
    /\ frames[c].pc = "line53"
    /\ frames' = [frames EXCEPT ![c].pc =
                    IF is_zero(frames[c].locals.a) THEN "line54" ELSE "line55"]
    /\ UNCHANGED <<module, ref>>

divide_test(c) ==
    /\ frames[c].pc = "line53"
    /\ frames' = [frames EXCEPT ![c].pc =
                    IF is_zero(frames[c].locals.b) THEN "line54" ELSE "line55"]
    /\ UNCHANGED <<module, ref>>

\* line 54: raise ValueError("Cannot divide by zero")
divide_raise_mutant_records(c) ==
    /\ frames[c].pc = "line54"
    /\ Finish(c, Raise("ValueError", "Cannot divide by zero"))
    /\ module' = [module EXCEPT !.all = Append(@, "last_error")]
    /\ UNCHANGED ref

divide_raise_mutant_message(c) ==
    /\ frames[c].pc = "line54"
    /\ Finish(c, Raise("ValueError", "division by zero"))
    /\ UNCHANGED <<module, ref>>

divide_raise(c) ==
    /\ frames[c].pc = "line54"
    /\ Finish(c, Raise("ValueError", "Cannot divide by zero"))
    /\ UNCHANGED <<module, ref>>

\* line 55: return a / b.  The operator / raises ZeroDivisionError when
\* its right operand is zero.
divide_return_mutant_shared(c) ==
    /\ frames[c].pc = "line55"
    /\ \E d \in DOMAIN frames :
         /\ frames[d].op = "divide"
         /\ Finish(c, IF is_zero(frames[d].locals.b)
                      THEN Raise("ZeroDivisionError", "division by zero")
                      ELSE Return(op_truediv(frames[c].locals.a, frames[d].locals.b)))
    /\ UNCHANGED <<module, ref>>

divide_return(c) ==
    /\ frames[c].pc = "line55"
    /\ Finish(c, IF is_zero(frames[c].locals.b)
                 THEN Raise("ZeroDivisionError", "division by zero")
                 ELSE Return(op_truediv(frames[c].locals.a, frames[c].locals.b)))
    /\ UNCHANGED <<module, ref>>

\* The outcome reaches the caller and the frame is discarded.
Resume(c) ==
    /\ frames[c].pc = "returned"
    /\ frames' = [frames EXCEPT ![c] = IdleFrame]
    /\ UNCHANGED <<module, ref>>

(***************************************************************************)
(* History: when the outcome of one finished call reaches the caller, the  *)
(* call's inputs and outcome are remembered, so that the calls made after  *)
(* it can be compared with it.                                             *)
(***************************************************************************)
Observe(c) ==
    /\ ref = NoOutcome
    /\ frames[c].pc = "returned"
    /\ ref' = [kind |-> "seen", op |-> frames[c].op, args |-> frames[c].args,
               outcome |-> frames[c].outcome]
    /\ frames' = [frames EXCEPT ![c] = IdleFrame]
    /\ UNCHANGED module

(***************************************************************************)
(* Specifications.                                                         *)
(***************************************************************************)
Step(c, Ops, Nms) ==
    \/ Call_hello_world(c, Nms)
    \/ Call_Calculator(c, Ops)
    \/ hello_world(c)
    \/ add(c)
    \/ subtract(c)
    \/ multiply(c)
    \/ divide_test(c)
    \/ divide_raise(c)
    \/ divide_return(c)
    \/ Resume(c)

\* One caller, one call at a time.
Next == Step(1, Operands, Names)

Spec == Init /\ [][Next]_vars

\* One caller, with one earlier call remembered.
NextHist == Step(1, Operands, Names) \/ Observe(1)

SpecHist == Init /\ [][NextHist]_vars

\* Concurrent callers whose steps interleave.
NextConc == \E c \in 1..NumCallers : Step(c, SmallOperands, SmallNames)

SpecConc == Init /\ [][NextConc]_vars

(***************************************************************************)
(* Properties.  The arithmetic of a result is stated by cross              *)
(* multiplication on numerators and denominators, the text of a greeting   *)
(* by its parts.                                                           *)
(***************************************************************************)
Callers == DOMAIN frames

Returned(f) == f.pc = "returned"

Returns(f) == f.outcome.kind = "return"

Fails(f) == f.outcome.kind = "raise"

IsNumber(r) == r[2] > 0

SumOf(r, a, b) ==
    IsNumber(r) /\ r[1] * a[2] * b[2] = (a[1] * b[2] + b[1] * a[2]) * r[2]

DifferenceOf(r, a, b) ==
    IsNumber(r) /\ r[1] * a[2] * b[2] = (a[1] * b[2] - b[1] * a[2]) * r[2]

ProductOf(r, a, b) ==
    IsNumber(r) /\ r[1] * a[2] * b[2] = a[1] * b[1] * r[2]

QuotientOf(r, a, b) ==
    /\ IsNumber(r)
    /\ r[1] * a[2] * b[1] = a[1] * b[2] * r[2]
    /\ (a[1] = 0) => (r[1] = 0)
    /\ (a[1] # 0) => ((r[1] > 0) <=> ((a[1] > 0) <=> (b[1] > 0)))

GreetingOf(v, n) ==
    /\ Len(v) = Len(n) + 8
    /\ SubSeq(v, 1, 7) = <<"H", "e", "l", "l", "o", ",", " ">>
    /\ SubSeq(v, 8, 7 + Len(n)) = n
    /\ v[Len(v)] = "!"

HelloWorldText ==
    <<"H", "e", "l", "l", "o", ",", " ", "W", "o", "r", "l", "d", "!">>

OwnZeroError(o) ==
    /\ o.kind = "raise"
    /\ DOMAIN o = {"kind", "exc", "msg"}
    /\ o.exc = "ValueError"
    /\ o.msg = "Cannot divide by zero"

\* What a finished call yields when it is the only call ever made.
AsAlone(f) ==
    CASE f.op = "hello_world" ->
           Returns(f) /\ GreetingOf(f.outcome.value,
                                    IF f.args = <<>> THEN World ELSE f.args[1])
      [] f.op = "add" -> Returns(f) /\ SumOf(f.outcome.value, f.args[1], f.args[2])
      [] f.op = "subtract" ->
           Returns(f) /\ DifferenceOf(f.outcome.value, f.args[1], f.args[2])
      [] f.op = "multiply" ->
           Returns(f) /\ ProductOf(f.outcome.value, f.args[1], f.args[2])
      [] f.op = "divide" ->
           IF f.args[2][1] = 0 THEN OwnZeroError(f.outcome)
           ELSE Returns(f) /\ QuotientOf(f.outcome.value, f.args[1], f.args[2])

\* C1: every finished divide(a, 0), for every a and also a = 0, has failed with
\* the module's error carrying the message "Cannot divide by zero", and its
\* outcome carries no value.
C1_DivideByZeroFails ==
    \A c \in Callers :
      (Returned(frames[c]) /\ frames[c].op = "divide" /\ frames[c].args[2][1] = 0)
        => OwnZeroError(frames[c].outcome)

C1_Witness ==
    /\ Returned(frames[1]) /\ frames[1].op = "divide"
    /\ frames[1].args = <<<<0, 1>>, <<0, 1>>>>
    /\ Fails(frames[1])

\* C2: every finished divide(a, b) with b # 0 has returned the true quotient
\* a / b: exact, fractional when b does not divide a, of the right sign, and 0
\* when a = 0.
C2_DivideReturnsQuotient ==
    \A c \in Callers :
      (Returned(frames[c]) /\ frames[c].op = "divide" /\ frames[c].args[2][1] # 0)
        => /\ Returns(frames[c])
           /\ QuotientOf(frames[c].outcome.value, frames[c].args[1], frames[c].args[2])

C2_Witness ==
    /\ Returned(frames[1]) /\ frames[1].op = "divide"
    /\ frames[1].args = <<<<-1, 1>>, <<2, 1>>>>
    /\ Returns(frames[1]) /\ frames[1].outcome.value = <<-1, 2>>

\* C3: every finished add(a, b) has returned a + b, every finished
\* subtract(a, b) has returned a - b (first minus second), and every finished
\* multiply(a, b) has returned a * b.
C3_AddSubtractMultiply ==
    \A c \in Callers :
      LET f == frames[c] IN
      /\ (Returned(f) /\ f.op = "add")
           => Returns(f) /\ SumOf(f.outcome.value, f.args[1], f.args[2])
      /\ (Returned(f) /\ f.op = "subtract")
           => Returns(f) /\ DifferenceOf(f.outcome.value, f.args[1], f.args[2])
      /\ (Returned(f) /\ f.op = "multiply")
           => Returns(f) /\ ProductOf(f.outcome.value, f.args[1], f.args[2])

C3_Witness ==
    /\ Returned(frames[1]) /\ frames[1].op = "subtract"
    /\ frames[1].args = <<<<1, 2>>, <<2, 1>>>>
    /\ Returns(frames[1]) /\ frames[1].outcome.value = <<-3, 2>>

\* C4: every finished hello_world(name), for every text name and also the
\* empty text, has returned "Hello, " followed by exactly name followed by "!".
C4_GreetingIsConcatenation ==
    \A c \in Callers :
      (Returned(frames[c]) /\ frames[c].op = "hello_world" /\ Len(frames[c].args) = 1)
        => /\ Returns(frames[c])
           /\ GreetingOf(frames[c].outcome.value, frames[c].args[1])

C4_Witness ==
    /\ Returned(frames[1]) /\ frames[1].op = "hello_world"
    /\ frames[1].args = << <<>> >>
    /\ Returns(frames[1])
    /\ frames[1].outcome.value = <<"H", "e", "l", "l", "o", ",", " ", "!">>

\* C5: every finished hello_world() with the name omitted has returned
\* "Hello, World!", which is also what every finished hello_world("World") has
\* returned.
C5_DefaultNameIsWorld ==
    \A c \in Callers :
      (/\ Returned(frames[c]) /\ frames[c].op = "hello_world"
       /\ (frames[c].args = <<>> \/ frames[c].args = <<World>>))
        => Returns(frames[c]) /\ frames[c].outcome.value = HelloWorldText

C5_Witness ==
    /\ Returned(frames[1]) /\ frames[1].op = "hello_world"
    /\ frames[1].args = <<>>
    /\ Returns(frames[1]) /\ frames[1].outcome.value = HelloWorldText

\* C6: every call in progress can take a step; every finished hello_world, add,
\* subtract and multiply has returned a value; and a finished divide has failed
\* if and only if its divisor is zero.
C6_OnlyDivideByZeroFails ==
    \A c \in Callers :
      LET f == frames[c] IN
      /\ (f.pc \notin {"idle", "returned"}) => ENABLED Step(c, Operands, Names)
      /\ (Returned(f) /\ f.op # "divide") => Returns(f)
      /\ (Returned(f) /\ f.op = "divide")
           => /\ Returns(f) \/ Fails(f)
              /\ Fails(f) <=> (f.args[2][1] = 0)

C6_Witness ==
    /\ Returned(frames[1]) /\ frames[1].op = "divide"
    /\ frames[1].args = <<<<0, 1>>, <<1, 2>>>>
    /\ Returns(frames[1])

\* C7: a finished call has the same outcome as the remembered earlier call
\* whenever the two have the same operation and arguments, whatever calls were
\* made before and between them.
C7_HistoryIndependent ==
    \A c \in Callers :
      (/\ ref.kind = "seen" /\ Returned(frames[c])
       /\ frames[c].op = ref.op /\ frames[c].args = ref.args)
        => /\ frames[c].outcome.kind = ref.outcome.kind
           /\ Returns(frames[c]) => frames[c].outcome.value = ref.outcome.value
           /\ Fails(frames[c]) => frames[c].outcome = ref.outcome

C7_Witness ==
    /\ ref.kind = "seen" /\ ref.op = "hello_world" /\ ref.args = <<>>
    /\ Returned(frames[1]) /\ frames[1].op = "hello_world" /\ frames[1].args = <<>>
    /\ frames[1].outcome = ref.outcome

\* C8: with concurrent callers whose steps interleave in every way, every
\* finished call has the outcome it has when it is the only call, every step
\* changes the frame of one caller only, and no step changes the module state.
C8_OneFrameStep ==
    /\ module' = module
    /\ \A c, d \in Callers :
         (frames'[c] # frames[c] /\ frames'[d] # frames[d]) => c = d

C8_ConcurrentAsAlone ==
    /\ [](\A c \in Callers : Returned(frames[c]) => AsAlone(frames[c]))
    /\ [][C8_OneFrameStep]_vars

C8_Witness ==
    /\ Returned(frames[1]) /\ frames[1].op = "divide"
    /\ frames[1].args = <<<<2, 1>>, <<-3, 2>>>> /\ Returns(frames[1])
    /\ frames[2].op = "divide" /\ frames[2].pc = "line54"

\* C9: the division of line 55 is never reached with a zero divisor, and a
\* divide that fails fails with the module's own error, never with the
\* ZeroDivisionError of the division operator.
C9_TestBeforeDivision ==
    \A c \in Callers :
      LET f == frames[c] IN
      /\ (f.pc = "line55") => ~is_zero(f.locals.b)
      /\ (Returned(f) /\ f.op = "divide" /\ Fails(f)) => OwnZeroError(f.outcome)

C9_Witness ==
    /\ frames[1].op = "divide" /\ frames[1].pc = "line54"
    /\ is_zero(frames[1].locals.b)

\* C10: no step of a divide(a, 0) call changes the module state, the call's
\* operands or another caller's frame, or gives the call a value; when its
\* failure has reached the caller the state is the state before the call; and
\* after a remembered failed divide every finished call has the outcome it has
\* when it is the only call.
C10_ZeroCall(f) == f.op = "divide" /\ f.args[2][1] = 0

C10_FailureStep ==
    \A c \in Callers :
      C10_ZeroCall(frames[c]) =>
        /\ module' = module
        /\ \A d \in Callers \ {c} : frames'[d] = frames[d]
        /\ \/ frames'[c] = IdleFrame
           \/ /\ frames'[c].args = frames[c].args
              /\ frames'[c].locals = frames[c].locals
              /\ ~Returns(frames'[c])

C10_AfterFailure ==
    (ref.kind = "seen" /\ Fails(ref)) =>
      /\ module = ModuleInit
      /\ \A c \in Callers : Returned(frames[c]) => AsAlone(frames[c])

C10_FailedDivideLeavesNoTrace ==
    /\ []C10_AfterFailure
    /\ [][C10_FailureStep]_vars

C10_Witness ==
    /\ ref.kind = "seen" /\ ref.op = "divide" /\ Fails(ref)
    /\ Returned(frames[1]) /\ frames[1].op = "divide"
    /\ frames[1].args = <<<<1, 1>>, <<2, 1>>>>
    /\ Returns(frames[1]) /\ frames[1].outcome.value = <<1, 2>>

====
